---- MODULE Spec2Model ----
(***************************************************************************)
(* A model of the batch completion layer (src/src/llm.py), of the          *)
(* conversion cache and the conversion stage (src/src/step1_convert.py),   *)
(* and of the answer and judge stages.                                     *)
(*                                                                         *)
(* SpecBatch runs one call of batch_completion: the main thread, the       *)
(* tenacity retry loop around every litellm.completion call, and the       *)
(* worker threads of the ThreadPoolExecutor.                               *)
(*                                                                         *)
(* SpecKey runs CacheManager.get and CacheManager.put of several           *)
(* CacheManager instances on report files whose modification time changes. *)
(*                                                                         *)
(* SpecConvert runs step1_convert.main several times over the same report  *)
(* files and cache directory, the remote conversions of                    *)
(* src/src/convert_modal.py included.                                      *)
(*                                                                         *)
(* SpecAnswer runs the answer stage (src/src/step2_answer.py) and then the *)
(* judge stage (src/src/step3_judge.py) over a markdown directory.         *)
(***************************************************************************)
EXTENDS Integers, Sequences, FiniteSets, TLC

\* ---------------------------------------------------------------- bounds
MaxChats == 3
MaxWorkers == 3
MaxRetries == 1
MaxMtime == 2
MaxEntries == 2
MaxRuns == 2

VARIABLES
    chats,           \* the chats argument: chats[i] is the i-th chat
    model_known,     \* whether the litellm config file lists the model name
    workers_arg,     \* the workers argument as passed by the caller
    workers,         \* the local variable workers (re-assigned by the clamp)
    retries,         \* the retries argument
    pc,              \* position of the main thread inside batch_completion
    exc,             \* the exception batch_completion raised, "none" if none
    st,              \* st[i]: state of the generate_completion call of item i
    attempt_number,  \* attempt_number[i]: tenacity's attempt counter of item i
    raised,          \* raised[i]: the exceptions litellm.completion raised for item i, in order
    result,          \* result[i]: what generate_completion returned for item i
    finish_order,    \* the items in the order their generate_completion call ended
    responses,       \* the list of responses built by the main thread
    interrupted,     \* whether a KeyboardInterrupt hit the main thread
    cfg,             \* the run's cfg.convert: the lib and the model of every get and put
    mtime,           \* mtime[f]: os.stat(f).st_mtime of report file f
    cache,           \* the files under the cache directories: path -> text
    ret,             \* what the last call of get or put returned
    watch,           \* a (basename, mtime, lib, model) whose keys are recorded
    watch_keys,      \* the keys _get_cache_key has returned for watch
    put_log,         \* per cache_dir and triple: the text and the key of the latest put
    conv_run,        \* how many runs of step1_convert.main were started
    conv_pc,         \* position of the current run inside step1_convert.main
    conv_cfg,        \* cfg.convert of the current run: cache flags and file selection
    conv_exc,        \* the exception the current run raised, None if none
    files_df,        \* the data frame files_df of the current run, a sequence of rows
    files_to_convert,\* the data frame files_to_convert of the current run
    starmap,         \* per input of starmap: the file passed, the attempts, the outcome
    md_strings,      \* the list convert_modal.main returned
    md_files,        \* the files under cfg.paths.markdown_dir: path -> text
    qa_pc,           \* position of the pipeline inside the answer and the judge stage
    question_answers,\* the QuestionAnswer objects of the stage that is running
    chats_to_process,\* the chats the answer stage passes to batch_completion
    eval_chats,      \* the chats the judge stage passes to batch_completion
    eval_responses,  \* the responses batch_completion returned to the judge stage
    answers_file,    \* the content of cfg.paths.answers_file
    evaluated_file   \* the content of cfg.paths.evaluated_answers_file

batch_vars == <<chats, model_known, workers_arg, workers, retries, pc, exc, st,
                attempt_number, raised, result, finish_order, responses, interrupted>>

cache_vars == <<cfg, mtime, cache, ret, watch, watch_keys, put_log>>

conv_vars == <<conv_run, conv_pc, conv_cfg, conv_exc, files_df, files_to_convert,
               starmap, md_strings, md_files>>

qa_vars == <<qa_pc, question_answers, chats_to_process, eval_chats, eval_responses,
             answers_file, evaluated_file>>

vars == <<batch_vars, cache_vars, conv_vars, qa_vars>>

\* ------------------------------------------------------------ helpers
Min(a, b) == IF a < b THEN a ELSE b

N == Len(chats)

Items == 1..N

\* The exceptions litellm.completion raises: anything retryable, or a BadRequestError.
CompletionErrors == {"TransientError", "BadRequestError"}

NoResult == [request |-> 0, messages |-> 0]

\* The ModelResponse that litellm.completion(**arg_dicts[i]) returns.
Response(i) == [request |-> i, messages |-> chats[i]]

\* A retry predicate that exempts only KeyboardInterrupt.
ShouldRetry_all_errors(e) == e \notin {"KeyboardInterrupt"}

\* retry=retry_if_not_exception_type((KeyboardInterrupt, litellm.BadRequestError))
ShouldRetry(e) == e \notin {"KeyboardInterrupt", "BadRequestError"}

\* A stop condition that counts retries as attempts.
StopAfterAttempt_early(attempt, r) == attempt >= r

\* A stop condition that allows one attempt too many.
StopAfterAttempt_late(attempt, r) == attempt > r + 1

\* stop=stop_after_attempt(retries + 1)
StopAfterAttempt(attempt, r) == attempt >= r + 1

\* if len(arg_dicts) < workers: workers = len(arg_dicts)
ClampWorkers(w, n) == IF n < w THEN n ELSE w

\* A comprehension that walks arg_dicts back to front.
NextArg_reversed(done) == N - done

\* The list comprehension walks arg_dicts front to back.
NextArg(done) == done + 1

\* executor.map submits the items in list order; the work queue is FIFO.
QueueHead(s) == {i \in DOMAIN s : s[i] = "pending" /\ \A j \in DOMAIN s : j < i => s[j] # "pending"}

\* Results taken as the futures complete (as_completed) instead of in order.
NextFuture_as_completed(resp, s) ==
    {i \in DOMAIN s : s[i] \in {"succeeded", "permanent", "failed"}}

\* executor.map yields the futures' results in submission order.
NextFuture(resp, s) == {Len(resp) + 1} \cap DOMAIN s

\* A pool that starts one thread more than max_workers.
HasIdleWorker_one_more(busy, max_workers) == busy <= max_workers

\* ThreadPoolExecutor(max_workers=workers): a queued item starts only on an idle thread.
HasIdleWorker(busy, max_workers) == busy < max_workers

Running(s) == {i \in DOMAIN s : s[i] \in {"calling", "waiting"}}

InFlight == {i \in Items : st[i] = "calling"}

Settled(s) == s \in {"succeeded", "permanent", "failed", "interrupted", "cancelled"}

\* What tenacity does with an exception e of the wrapped call at the given
\* attempt: re-raise it, give up with RetryError, or sleep and call again.
AfterRaise(e, attempt, r) ==
    IF ~ShouldRetry(e) THEN "reraise"
    ELSE IF StopAfterAttempt(attempt, r) THEN "retry_error"
    ELSE "sleep"

\* The arguments of the call, which nothing re-assigns.
inputs == <<chats, model_known, workers_arg, retries>>

\* ------------------------------------------------------ conversion cache
\* The model argument may be None.
None == "<None>"

\* Report files, each path as the sequence of its components: the same
\* basename in two directories.
Paths == {<<"reports", "a.pdf">>, <<"reports", "old", "a.pdf">>}

Libs == {"marker", "docling"}

Models == {None, "gpt", "no_model"}

\* The cache_dir of the CacheManager instances.
CacheDirs == {<<"cache">>, <<"tmp", "cache">>}

Texts == {"abc", "Error converting a.pdf to markdown: boom"}

Mtimes == 1..MaxMtime

StartsWith(text, prefix) ==
    Len(text) >= Len(prefix) /\ SubSeq(text, 1, Len(prefix)) = prefix

\* os.path.basename: the last component.
Basename(path) == path[Len(path)]

\* The path as the string the components are joined to.
RECURSIVE PathStr(_)
PathStr(path) ==
    IF Len(path) = 1 THEN path[1]
    ELSE path[1] \o "/" \o PathStr(Tail(path))

\* str() of the float st_mtime.
MtimeStr(t) == ToString(t) \o ".0"

\* hashlib.md5(data).hexdigest(): a function of data alone, taken to be free of
\* collisions on the strings that occur here.
Md5Hex(data) == "md5(" \o data \o ")"

\* A key built from the whole path instead of the basename.
GetCacheKey_path_dependent(file_path, lib, model) ==
    LET model_str == IF model = None \/ model = "" THEN "no_model" ELSE model
        cache_key_data == PathStr(file_path) \o "_" \o MtimeStr(mtime[file_path])
                            \o "_" \o lib \o "_" \o model_str
    IN  Md5Hex(cache_key_data)

\* CacheManager._get_cache_key
GetCacheKey(file_path, lib, model) ==
    LET model_str == IF model = None \/ model = "" THEN "no_model" ELSE model
        file_basename == Basename(file_path)
        cache_key_data == file_basename \o "_" \o MtimeStr(mtime[file_path])
                            \o "_" \o lib \o "_" \o model_str
    IN  Md5Hex(cache_key_data)

\* cache_file = self.cache_dir / f"{cache_key}.md"
CacheFile(cache_dir, cache_key) == Append(cache_dir, cache_key \o ".md")

\* A write that ignores the file name and replaces every file of the store.
WriteText_everywhere(files, path, text) ==
    [f \in DOMAIN files \cup {path} |-> text]

\* Path.write_text: the file at path holds text afterwards, every other file
\* is left as it is.
WriteText(files, path, text) ==
    [f \in DOMAIN files \cup {path} |-> IF f = path THEN text ELSE files[f]]

\* A lookup that treats a cached failure as a miss whatever the flag says.
ReadCacheFile_always_retry(files, cache_file, retry_cached_failures) ==
    IF cache_file \in DOMAIN files
      THEN (IF StartsWith(files[cache_file], "Error converting")
              THEN None
              ELSE files[cache_file])
      ELSE None

\* A lookup that raises for a file that does not exist.
ReadCacheFile_no_exists_check(files, cache_file, retry_cached_failures) ==
    IF cache_file \in DOMAIN files
      THEN (IF retry_cached_failures /\ StartsWith(files[cache_file], "Error converting")
              THEN None
              ELSE files[cache_file])
      ELSE "FileNotFoundError"

\* The body of CacheManager.get after the key is known: the text of the cache
\* file, None when there is no such file or when it holds a failure that is
\* to be retried.
ReadCacheFile(files, cache_file, retry_cached_failures) ==
    IF cache_file \in DOMAIN files
      THEN (IF retry_cached_failures /\ StartsWith(files[cache_file], "Error converting")
              THEN None
              ELSE files[cache_file])
      ELSE None

\* The (basename, mtime, lib, model) a call of _get_cache_key is made for.
Triple(file_path, lib, model) ==
    [basename |-> Basename(file_path), mtime |-> mtime[file_path],
     lib |-> lib, model |-> model]

\* Every call of _get_cache_key for the watched triple adds its key.
Observe(file_path, lib, model) ==
    watch_keys' = IF Triple(file_path, lib, model) = watch
                    THEN watch_keys \cup {GetCacheKey(file_path, lib, model)}
                    ELSE watch_keys

\* What get returns for file_path under the lib and model of the configuration.
GetValue(cache_dir, file_path, retry_cached_failures) ==
    ReadCacheFile(cache,
                  CacheFile(cache_dir, GetCacheKey(file_path, cfg.lib, cfg.model)),
                  retry_cached_failures)

\* The cache directory and the triple a put of file_path is made for.
LogEntry(cache_dir, file_path) ==
    [cache_dir |-> cache_dir, triple |-> Triple(file_path, cfg.lib, cfg.model)]

\* The record of puts after a put of text for file_path.
LogPut(log, cache_dir, file_path, text) ==
    [e \in DOMAIN log \cup {LogEntry(cache_dir, file_path)} |->
        IF e = LogEntry(cache_dir, file_path)
          THEN [text |-> text, key |-> GetCacheKey(file_path, cfg.lib, cfg.model)]
          ELSE log[e]]

\* ------------------------------------------------------ conversion stage
\* Stands for None in the integer field sample_first_n.
Unset == -1

\* cfg.paths.cache_dir and cfg.paths.markdown_dir of the runs.
CacheDir == <<"cache">>

MarkdownDir == <<"markdown">>

\* What get_report_files returns: the report files, sorted by path.
ReportFiles == <<<<"reports", "a.pdf">>, <<"reports", "old", "a.pdf">>>>

\* The file selections of cfg.convert.
Selections ==
    {[target_files |-> {}, sample_first_n |-> Unset],
     [target_files |-> {}, sample_first_n |-> 1],
     [target_files |-> {"a.pdf"}, sample_first_n |-> 1],
     [target_files |-> {"b.pdf"}, sample_first_n |-> Unset]}

ConvCfgs ==
    {[read_cache |-> r, write_cache |-> w, retry_cached_failures |-> t,
      target_files |-> sel.target_files, sample_first_n |-> sel.sample_first_n] :
        r \in BOOLEAN, w \in BOOLEAN, t \in BOOLEAN, sel \in Selections}

\* What a remote conversion function does with one input: it returns the
\* markdown or raises.
ConversionOutcomes ==
    {[type |-> "str", value |-> "abc"], [type |-> "exc", value |-> "boom"]}

\* The index of the last "." of s at or before i that is not its first character, 0 if none.
RECURSIVE LastDot(_, _)
LastDot(s, i) ==
    IF i <= 1 THEN 0
    ELSE IF SubSeq(s, i, i) = "." THEN i ELSE LastDot(s, i - 1)

\* generate_md_path: <markdown_dir>/<name>_from_<extension>.md
GenerateMdPath(file, markdown_dir) ==
    LET base == Basename(file)
        dot == LastDot(base, Len(base))
        filename == IF dot = 0 THEN base ELSE SubSeq(base, 1, dot - 1)
        file_extension == IF dot = 0 THEN "" ELSE SubSeq(base, dot + 1, Len(base))
    IN  Append(markdown_dir, filename \o "_from_" \o file_extension \o ".md")

\* files_df as built from the list of report files.
FilesDf(files) ==
    [i \in 1..Len(files) |->
        [file |-> files[i],
         file_basename |-> Basename(files[i]),
         md_path |-> GenerateMdPath(<<Basename(files[i])>>, MarkdownDir)]]

\* The filter of files_df by target_files or sample_first_n.
SelectFiles(df, c) ==
    IF c.target_files # {}
      THEN SelectSeq(df, LAMBDA row : row.file_basename \in c.target_files)
      ELSE IF c.sample_first_n # Unset
             THEN SubSeq(df, 1, Min(c.sample_first_n, Len(df)))
             ELSE df

\* A cache_getter that leaves retry_cached_failures at the default of get.
CacheGetter_default_retry(file, c) ==
    GetValue(CacheDir, file, TRUE)

\* cache_getter: cache.get with the lib, model and retry_cached_failures of the run.
CacheGetter(file, c) ==
    GetValue(CacheDir, file, c.retry_cached_failures)

\* The columns md_string and read_from_cache, from the cache or empty.
LookupCache(df, c) ==
    [i \in 1..Len(df) |->
        LET md_string == IF c.read_cache THEN CacheGetter(df[i].file, c) ELSE None
        IN  [file |-> df[i].file,
             file_basename |-> df[i].file_basename,
             md_path |-> df[i].md_path,
             md_string |-> md_string,
             read_from_cache |-> IF c.read_cache THEN md_string # None ELSE FALSE]]

\* A filter that keeps every row.
NotReadFromCache_all(df) == df

\* files_df.filter(~pl.col("read_from_cache"))
NotReadFromCache(df) == SelectSeq(df, LAMBDA row : ~row.read_from_cache)

\* A remote function that is called once more after its first failure.
RetryConversion_once(attempt) == attempt < 2

\* Whether the remote function is called again after its attempt-th call
\* raised: the functions are declared without retries.
RetryConversion(attempt) == FALSE

\* The inputs of starmap, one per file, none of them called yet.
StarmapInputs(files) ==
    [i \in 1..Len(files) |-> [file |-> files[i], type |-> "pending", value |-> "", attempts |-> 0]]

\* A result list whose error messages leave out what the exception said.
MdStrings_without_detail(results) ==
    [i \in 1..Len(results) |->
        IF results[i].type # "str"
          THEN "Error converting " \o results[i].file \o " to markdown"
          ELSE results[i].value]

\* The list convert_modal.main returns: the results of starmap in input
\* order, each one that is not a string replaced by an error message.
MdStrings(results) ==
    [i \in 1..Len(results) |->
        IF results[i].type # "str"
          THEN "Error converting " \o results[i].file \o " to markdown: " \o results[i].value
          ELSE results[i].value]

\* A row of the joined frame: the columns of the left row and md_string_right.
JoinedRow(row, md_string_right) ==
    [file |-> row.file,
     file_basename |-> row.file_basename,
     md_path |-> row.md_path,
     md_string |-> row.md_string,
     read_from_cache |-> row.read_from_cache,
     md_string_right |-> md_string_right]

\* left.join(right.select("file", "md_string"), on="file", how="left")
RECURSIVE LeftJoin(_, _)
LeftJoin(left, right) ==
    IF left = <<>> THEN <<>>
    ELSE LET row == Head(left)
             matches == SelectSeq(right, LAMBDA r : r.file = row.file)
         IN  (IF matches = <<>>
                THEN <<JoinedRow(row, None)>>
                ELSE [k \in 1..Len(matches) |-> JoinedRow(row, matches[k].md_string)])
                \o LeftJoin(Tail(left), right)

\* A merge that takes md_string from the converted rows only.
Coalesce_right_only(df) ==
    [i \in 1..Len(df) |-> [df[i] EXCEPT !.md_string = df[i].md_string_right]]

\* with_columns(pl.coalesce("md_string_right", "md_string").alias("md_string"))
Coalesce(df) ==
    [i \in 1..Len(df) |->
        [df[i] EXCEPT !.md_string = IF df[i].md_string_right # None
                                      THEN df[i].md_string_right
                                      ELSE df[i].md_string]]

\* The markdown directory after every row was written to its md_path, in row order.
RECURSIVE WriteMarkdown(_, _)
WriteMarkdown(files, rows) ==
    IF rows = <<>> THEN files
    ELSE WriteMarkdown(WriteText(files, Head(rows).md_path, Head(rows).md_string), Tail(rows))

\* The cache directory after cache.put of every row, in row order.
RECURSIVE WriteCache(_, _)
WriteCache(files, rows) ==
    IF rows = <<>> THEN files
    ELSE WriteCache(WriteText(files,
                              CacheFile(CacheDir, GetCacheKey(Head(rows).file, cfg.lib, cfg.model)),
                              Head(rows).md_string),
                    Tail(rows))

\* The record of puts after cache.put of every row, in row order.
RECURSIVE LogPuts(_, _)
LogPuts(log, rows) ==
    IF rows = <<>> THEN log
    ELSE LogPuts(LogPut(log, CacheDir, Head(rows).file, Head(rows).md_string), Tail(rows))

\* No run of the conversion stage was started.
NoRun ==
    /\ conv_run = 0
    /\ conv_pc = "idle"
    /\ conv_cfg = [read_cache |-> FALSE, write_cache |-> FALSE, retry_cached_failures |-> FALSE,
                   target_files |-> {}, sample_first_n |-> Unset]
    /\ conv_exc = None
    /\ files_df = <<>>
    /\ files_to_convert = <<>>
    /\ starmap = <<>>
    /\ md_strings = <<>>

\* ------------------------------------------------ answer and judge stages
\* The questions of cfg.paths.questions_file.
Questions ==
    <<[question_id |-> "q1", report_name |-> "a"],
      [question_id |-> "q2", report_name |-> "b"]>>

\* The file names the markdown directory can hold, in the order os.listdir lists them.
MdNames == <<"a_from_pdf.md", "a_from_pptx.md", "b_from_pdf.md">>

\* What a markdown file can hold: a converted text, the error message of a
\* failed conversion, a converted text that mentions such a message.
ReportTexts == Texts \cup {"abc Error converting"}

\* cfg.answer.model
AnswerModel == "gpt"

EndsWith(text, suffix) ==
    Len(text) >= Len(suffix)
        /\ SubSeq(text, Len(text) - Len(suffix) + 1, Len(text)) = suffix

RECURSIVE Flatten(_)
Flatten(seqs) == IF seqs = <<>> THEN <<>> ELSE Head(seqs) \o Flatten(Tail(seqs))

\* os.listdir(reports_dir)
ListDir(reports_dir) ==
    SelectSeq(MdNames, LAMBDA filename : Append(reports_dir, filename) \in DOMAIN md_files)

\* find_matching_reports: the paths of the .md files of report_name.
FindMatchingReports(reports_dir, report_name) ==
    LET matching == SelectSeq(ListDir(reports_dir),
                              LAMBDA filename : /\ StartsWith(filename, report_name \o "_from")
                                                /\ EndsWith(filename, ".md"))
    IN  [k \in 1..Len(matching) |-> Append(reports_dir, matching[k])]

\* A test that takes only the bare prefix for a failed conversion.
IsConversionError_exact(content) == content = "Error converting"

\* content.startswith("Error converting")
IsConversionError(content) == StartsWith(content, "Error converting")

\* Stands for evaluation=None.
NoEvaluation == [reasoning |-> None, correct |-> FALSE]

Evaluation(reasoning, correct) == [reasoning |-> reasoning, correct |-> correct]

ReportAnswer(report_filename, answer, conversion_error) ==
    [report_filename |-> report_filename,
     answer |-> answer,
     model |-> AnswerModel,
     conversion_error |-> conversion_error,
     evaluation |-> NoEvaluation]

\* The ReportAnswers process_questions appends for the failed conversions of q's report.
ErrorAnswers(q) ==
    LET reports == SelectSeq(FindMatchingReports(MarkdownDir, q.report_name),
                             LAMBDA report_path : IsConversionError(md_files[report_path]))
    IN  [k \in 1..Len(reports) |-> ReportAnswer(Basename(reports[k]), "CONVERSION_ERROR", TRUE)]

\* The chats, with their metadata, process_questions creates for q.
AnswerChats(q) ==
    LET reports == SelectSeq(FindMatchingReports(MarkdownDir, q.report_name),
                             LAMBDA report_path : ~IsConversionError(md_files[report_path]))
    IN  [k \in 1..Len(reports) |->
            [question_id |-> q.question_id,
             report_filename |-> Basename(reports[k]),
             content |-> md_files[reports[k]]]]

\* response.choices[0].message.content of the response to chat.
AnswerContent(chat) ==
    "answer(" \o chat.question_id \o "," \o chat.report_filename \o ")"

\* The loop over zip(responses, chat_metadata): every answer is appended to
\* the report_answers of its question.
RECURSIVE StoreAnswers(_, _)
StoreAnswers(qas, metadata) ==
    IF metadata = <<>> THEN qas
    ELSE StoreAnswers(
            [i \in 1..Len(qas) |->
                IF qas[i].question_id = Head(metadata).question_id
                  THEN [qas[i] EXCEPT !.report_answers =
                           Append(@, ReportAnswer(Head(metadata).report_filename,
                                                  AnswerContent(Head(metadata)), FALSE))]
                  ELSE qas[i]],
            Tail(metadata))

\* json.dump of a bool, and what pydantic makes of it when the file is loaded.
JsonBool(b) == IF b THEN "true" ELSE "false"

ParseBool(j) == j = "true"

\* model_dump and write_json of the QuestionAnswers.
DumpAnswers(qas) ==
    [i \in 1..Len(qas) |->
        [question_id |-> qas[i].question_id,
         report_name |-> qas[i].report_name,
         report_answers |->
            [k \in 1..Len(qas[i].report_answers) |->
                LET ra == qas[i].report_answers[k]
                IN  [report_filename |-> ra.report_filename,
                     answer |-> ra.answer,
                     model |-> ra.model,
                     conversion_error |-> JsonBool(ra.conversion_error),
                     evaluation |-> IF ra.evaluation = NoEvaluation
                                      THEN [reasoning |-> "null", correct |-> "null"]
                                      ELSE [reasoning |-> ra.evaluation.reasoning,
                                            correct |-> JsonBool(ra.evaluation.correct)]]]]]

\* load_answers: the QuestionAnswers of a written file.
LoadAnswers(data) ==
    [i \in 1..Len(data) |->
        [question_id |-> data[i].question_id,
         report_name |-> data[i].report_name,
         report_answers |->
            [k \in 1..Len(data[i].report_answers) |->
                LET ra == data[i].report_answers[k]
                IN  [report_filename |-> ra.report_filename,
                     answer |-> ra.answer,
                     model |-> ra.model,
                     conversion_error |-> ParseBool(ra.conversion_error),
                     evaluation |-> IF ra.evaluation.correct = "null"
                                      THEN NoEvaluation
                                      ELSE Evaluation(ra.evaluation.reasoning,
                                                      ParseBool(ra.evaluation.correct))]]]]

\* A response of the judge model without a tool call.
NoToolCalls == "<no tool_calls>"

\* The responses of the judge model, each given by the arguments string of
\* its tool call: a JSON object, one that lacks its closing brace, text that
\* is no JSON, no tool call at all.
JudgeResponses ==
    {"{\"reasoning\": \"matches\", \"correct\": true}",
     "{\"reasoning\": \"differs\", \"correct\": false",
     "The answer matches",
     NoToolCalls}

\* json.loads on the documents the responses can hold; any other string is
\* not a JSON document.
JsonDocs ==
    [doc \in {"{\"reasoning\": \"matches\", \"correct\": true}",
               "{\"reasoning\": \"differs\", \"correct\": false}"} |->
        IF doc = "{\"reasoning\": \"matches\", \"correct\": true}"
          THEN [reasoning |-> "matches", correct |-> TRUE]
          ELSE [reasoning |-> "differs", correct |-> FALSE]]

\* parse_eval_response followed by the construction of the Evaluation: the
\* reasoning and correct of the tool call, or the exception raised.
ParseEvalResponse(response) ==
    IF response = NoToolCalls
      THEN [parsable |-> FALSE, reasoning |-> "", correct |-> FALSE,
            error |-> "'NoneType' object is not subscriptable"]
      ELSE LET args_str == IF SubSeq(response, Len(response), Len(response)) # "}"
                             THEN response \o "}"
                             ELSE response
           IN  IF args_str \in DOMAIN JsonDocs
                 THEN [parsable |-> TRUE, reasoning |-> JsonDocs[args_str].reasoning,
                       correct |-> JsonDocs[args_str].correct, error |-> ""]
                 ELSE [parsable |-> FALSE, reasoning |-> "", correct |-> FALSE,
                       error |-> "Expecting value: line 1 column 1 (char 0)"]

\* What parse_eval_response does with the responses of the judge model: it
\* returns reasoning and correct, or raises.
JudgeOutcomes == {ParseEvalResponse(response) : response \in JudgeResponses}

\* A handler that leaves an answer whose response was not parsed without evaluation.
EvaluationOf_skip_failed(o) ==
    IF o.parsable THEN Evaluation(o.reasoning, o.correct) ELSE NoEvaluation

\* The body of the loop over the responses: the parsed evaluation, or the
\* EVALUATION_ERROR of the except branch.
EvaluationOf(o) ==
    IF o.parsable
      THEN Evaluation(o.reasoning, o.correct)
      ELSE Evaluation("EVALUATION_ERROR: " \o o.error, FALSE)

\* The first loop of process_evaluations: the answers of failed conversions
\* get their evaluation.
MarkConversionErrors(qas) ==
    [i \in 1..Len(qas) |->
        [qas[i] EXCEPT !.report_answers =
            [k \in 1..Len(qas[i].report_answers) |->
                IF qas[i].report_answers[k].conversion_error
                  THEN [qas[i].report_answers[k] EXCEPT
                           !.evaluation = Evaluation("CONVERSION_ERROR", FALSE)]
                  ELSE qas[i].report_answers[k]]]]

\* The first loop of process_evaluations: one chat, with its metadata, for
\* every other answer.
EvalChats(qas) ==
    Flatten([i \in 1..Len(qas) |->
        LET ks == SelectSeq([k \in 1..Len(qas[i].report_answers) |-> k],
                            LAMBDA k : ~qas[i].report_answers[k].conversion_error)
        IN  [m \in 1..Len(ks) |->
                [question |-> i, answer |-> ks[m],
                 content |-> qas[i].report_answers[ks[m]].answer]]])

\* The loop over zip(eval_metadata, responses): every answer that was sent
\* to the judge gets the parsed evaluation or an EVALUATION_ERROR.
RECURSIVE StoreEvaluations(_, _, _)
StoreEvaluations(qas, metadata, parsed) ==
    IF metadata = <<>> THEN qas
    ELSE LET md == Head(metadata)
             evaluation == EvaluationOf(Head(parsed))
         IN  StoreEvaluations(
                [qas EXCEPT ![md.question].report_answers[md.answer].evaluation = evaluation],
                Tail(metadata), Tail(parsed))

\* Neither the answer stage nor the judge stage has started.
NoAnswers ==
    /\ qa_pc = "start"
    /\ question_answers = <<>>
    /\ chats_to_process = <<>>
    /\ eval_chats = <<>>
    /\ eval_responses = <<>>
    /\ answers_file = <<>>
    /\ evaluated_file = <<>>

\* ---------------------------------------------------------------- Init
InitBatch ==
    /\ \E n \in 0..MaxChats : chats = [i \in 1..n |-> i]
    /\ model_known \in BOOLEAN
    /\ workers_arg \in 0..MaxWorkers
    /\ workers = workers_arg
    /\ retries \in (-1)..MaxRetries
    /\ pc = "start"
    /\ exc = "none"
    /\ st = [i \in 1..Len(chats) |-> "pending"]
    /\ attempt_number = [i \in 1..Len(chats) |-> 0]
    /\ raised = [i \in 1..Len(chats) |-> <<>>]
    /\ result = [i \in 1..Len(chats) |-> NoResult]
    /\ finish_order = <<>>
    /\ responses = <<>>
    /\ interrupted = FALSE
    /\ cfg = [lib |-> "marker", model |-> None]
    /\ mtime = [f \in Paths |-> 1]
    /\ cache = <<>>
    /\ ret = None
    /\ watch = [basename |-> "a.pdf", mtime |-> 1, lib |-> "marker", model |-> None]
    /\ watch_keys = {}
    /\ put_log = <<>>
    /\ NoRun
    /\ md_files = <<>>
    /\ NoAnswers

InitConvert ==
    /\ chats = <<>>
    /\ model_known = TRUE
    /\ workers_arg = 1
    /\ workers = 1
    /\ retries = 0
    /\ pc = "start"
    /\ exc = "none"
    /\ st = <<>>
    /\ attempt_number = <<>>
    /\ raised = <<>>
    /\ result = <<>>
    /\ finish_order = <<>>
    /\ responses = <<>>
    /\ interrupted = FALSE
    /\ cfg \in [lib : Libs, model : {"gpt"}]
    /\ mtime \in [Paths -> Mtimes]
    /\ cache = <<>>
    /\ ret = None
    /\ watch = [basename |-> "", mtime |-> 1, lib |-> cfg.lib, model |-> cfg.model]
    /\ watch_keys = {}
    /\ put_log = <<>>
    /\ NoRun
    /\ md_files = <<>>
    /\ NoAnswers

InitAnswer ==
    /\ chats = <<>>
    /\ model_known = TRUE
    /\ workers_arg = 1
    /\ workers = 1
    /\ retries = 0
    /\ pc = "start"
    /\ exc = "none"
    /\ st = <<>>
    /\ attempt_number = <<>>
    /\ raised = <<>>
    /\ result = <<>>
    /\ finish_order = <<>>
    /\ responses = <<>>
    /\ interrupted = FALSE
    /\ cfg = [lib |-> "marker", model |-> "gpt"]
    /\ mtime = [f \in Paths |-> 1]
    /\ cache = <<>>
    /\ ret = None
    /\ watch = [basename |-> "", mtime |-> 1, lib |-> cfg.lib, model |-> cfg.model]
    /\ watch_keys = {}
    /\ put_log = <<>>
    /\ NoRun
    /\ \E names \in SUBSET {MdNames[k] : k \in 1..Len(MdNames)} :
          md_files \in [{Append(MarkdownDir, filename) : filename \in names} -> ReportTexts]
    /\ NoAnswers

InitKey ==
    /\ chats = <<>>
    /\ model_known = TRUE
    /\ workers_arg = 1
    /\ workers = 1
    /\ retries = 0
    /\ pc = "start"
    /\ exc = "none"
    /\ st = <<>>
    /\ attempt_number = <<>>
    /\ raised = <<>>
    /\ result = <<>>
    /\ finish_order = <<>>
    /\ responses = <<>>
    /\ interrupted = FALSE
    /\ cfg \in [lib : Libs, model : Models]
    /\ mtime \in [Paths -> Mtimes]
    /\ cache = <<>>
    /\ ret = None
    /\ watch \in [basename : {Basename(f) : f \in Paths}, mtime : Mtimes,
                   lib : {cfg.lib}, model : {cfg.model}]
    /\ watch_keys = {}
    /\ put_log = <<>>
    /\ NoRun
    /\ md_files = <<>>
    /\ NoAnswers

\* ------------------------------------------------------------- actions
\* The early return, the model lookup, the assertions, the clamp and the
\* choice between the sequential and the thread pool branch.
Enter ==
    /\ pc = "start"
    /\ IF N = 0
         THEN pc' = "returned" /\ UNCHANGED <<exc, workers>>
       ELSE IF ~model_known
         THEN pc' = "raised" /\ exc' = "ValueError" /\ UNCHANGED workers
       ELSE IF ~(retries >= 0) \/ ~(workers > 0)
         THEN pc' = "raised" /\ exc' = "AssertionError" /\ UNCHANGED workers
       ELSE /\ workers' = ClampWorkers(workers, N)
            /\ pc' = IF workers' = 1 THEN "sequential" ELSE "parallel"
            /\ exc' = exc
    /\ UNCHANGED <<cache_vars, conv_vars, qa_vars, inputs, st, attempt_number, raised, result, finish_order,
                   responses, interrupted>>

\* First attempt of an item: in the sequential branch the main thread takes the
\* next element of arg_dicts, in the pool an idle worker takes the queue's head.
StartItem(i) ==
    /\ \/ /\ pc = "sequential"
          /\ Running(st) = {}
          /\ i = NextArg(Len(responses))
       \/ /\ pc \in {"parallel", "shutdown"}
          /\ i \in QueueHead(st)
          /\ HasIdleWorker(Cardinality(Running(st)), workers)
    /\ i \in Items
    /\ st[i] = "pending"
    /\ st' = [st EXCEPT ![i] = "calling"]
    /\ attempt_number' = [attempt_number EXCEPT ![i] = 1]
    /\ UNCHANGED <<cache_vars, conv_vars, qa_vars, inputs, workers, pc, exc, raised, result, finish_order,
                   responses, interrupted>>

\* litellm.completion returns: generate_completion returns the response.  The
\* list comprehension appends it; in the pool it is stored in the item's future.
CallReturns(i) ==
    /\ pc \in {"sequential", "parallel", "shutdown"}
    /\ i \in Items
    /\ st[i] = "calling"
    /\ st' = [st EXCEPT ![i] = "succeeded"]
    /\ result' = [result EXCEPT ![i] = Response(i)]
    /\ finish_order' = Append(finish_order, i)
    /\ IF pc = "sequential"
         THEN /\ responses' = Append(responses, result'[i])
              /\ pc' = IF Len(responses') = N THEN "returned" ELSE pc
         ELSE UNCHANGED <<responses, pc>>
    /\ UNCHANGED <<cache_vars, conv_vars, qa_vars, inputs, workers, exc, attempt_number, raised, interrupted>>

\* litellm.completion raises e: tenacity re-raises e when it is not retryable,
\* raises RetryError when the attempts are used up, and sleeps otherwise.  In
\* the sequential branch the exception leaves batch_completion at once; in the
\* pool it is stored in the item's future.
CallRaises(i, e) ==
    /\ pc \in {"sequential", "parallel", "shutdown"}
    /\ i \in Items
    /\ st[i] = "calling"
    /\ raised' = [raised EXCEPT ![i] = Append(@, e)]
    /\ LET todo == AfterRaise(e, attempt_number[i], retries) IN
         IF todo = "sleep"
           THEN /\ st' = [st EXCEPT ![i] = "waiting"]
                /\ UNCHANGED <<pc, exc, finish_order>>
           ELSE /\ st' = [st EXCEPT ![i] = IF todo = "reraise" THEN "permanent" ELSE "failed"]
                /\ finish_order' = Append(finish_order, i)
                /\ IF pc = "sequential"
                     THEN /\ pc' = "raised"
                          /\ exc' = IF todo = "reraise" THEN e ELSE "RetryError"
                     ELSE UNCHANGED <<pc, exc>>
    /\ UNCHANGED <<cache_vars, conv_vars, qa_vars, inputs, workers, attempt_number, result, responses, interrupted>>

\* The backoff sleep ends and tenacity calls litellm.completion again.
Wake(i) ==
    /\ pc \in {"sequential", "parallel", "shutdown"}
    /\ i \in Items
    /\ st[i] = "waiting"
    /\ st' = [st EXCEPT ![i] = "calling"]
    /\ attempt_number' = [attempt_number EXCEPT ![i] = @ + 1]
    /\ UNCHANGED <<cache_vars, conv_vars, qa_vars, inputs, workers, pc, exc, raised, result, finish_order,
                   responses, interrupted>>

\* list(executor.map(...)): the main thread takes the result of the next future.
\* A future holding an exception re-raises it; the result iterator then cancels
\* the futures that have not started and the with block waits for the workers.
Collect ==
    /\ pc = "parallel"
    /\ \E i \in NextFuture(responses, st) :
         /\ i \notin {responses[j].request : j \in DOMAIN responses}
         /\ st[i] \in {"succeeded", "permanent", "failed"}
         /\ IF st[i] = "succeeded"
              THEN /\ responses' = Append(responses, result[i])
                   /\ pc' = IF Len(responses') = N THEN "returned" ELSE pc
                   /\ UNCHANGED <<st, exc>>
              ELSE /\ st' = [j \in Items |-> IF st[j] = "pending" THEN "cancelled" ELSE st[j]]
                   /\ pc' = "shutdown"
                   /\ exc' = IF st[i] = "permanent" THEN "BadRequestError" ELSE "RetryError"
                   /\ UNCHANGED responses
    /\ UNCHANGED <<cache_vars, conv_vars, qa_vars, inputs, workers, attempt_number, raised, result, finish_order,
                   interrupted>>

\* ThreadPoolExecutor.__exit__ = shutdown(wait=True): batch_completion raises
\* once every worker thread has run out of work.
ShutdownDone ==
    /\ pc = "shutdown"
    /\ Running(st) = {}
    /\ QueueHead(st) = {}
    /\ pc' = "raised"
    /\ UNCHANGED <<cache_vars, conv_vars, qa_vars, inputs, workers, exc, st, attempt_number, raised, result,
                   finish_order, responses, interrupted>>

\* KeyboardInterrupt in the main thread of the sequential branch.  Raised inside
\* litellm.completion it passes through the retry predicate like any exception
\* of the call; raised inside tenacity's sleep or between two items it leaves
\* batch_completion directly.
InterruptSequential ==
    /\ pc = "sequential"
    /\ ~interrupted
    /\ interrupted' = TRUE
    /\ LET calling == {i \in Items : st[i] = "calling"}
           todo == IF calling = {} THEN "reraise"
                   ELSE AfterRaise("KeyboardInterrupt",
                                   attempt_number[CHOOSE i \in calling : TRUE], retries)
       IN  /\ st' = [i \in Items |->
                       IF st[i] = "waiting" \/ (st[i] = "calling" /\ todo = "reraise")
                         THEN "interrupted"
                       ELSE IF st[i] = "calling"
                         THEN (IF todo = "sleep" THEN "waiting" ELSE "failed")
                       ELSE st[i]]
           /\ pc' = IF todo = "sleep" THEN pc ELSE "raised"
           /\ exc' = IF todo = "reraise" THEN "KeyboardInterrupt"
                     ELSE IF todo = "retry_error" THEN "RetryError" ELSE exc
    /\ UNCHANGED <<cache_vars, conv_vars, qa_vars, inputs, workers, attempt_number, raised, result, finish_order,
                   responses>>

\* KeyboardInterrupt in the main thread of the pool branch, which is waiting
\* for the next future.  Only the main thread receives it: the result iterator
\* cancels the futures not yet started, the worker threads carry on with the
\* items they are running, and the with block waits for them.
InterruptParallel ==
    /\ pc = "parallel"
    /\ ~interrupted
    /\ interrupted' = TRUE
    /\ st' = [j \in Items |-> IF st[j] = "pending" THEN "cancelled" ELSE st[j]]
    /\ pc' = "shutdown"
    /\ exc' = "KeyboardInterrupt"
    /\ UNCHANGED <<cache_vars, conv_vars, qa_vars, inputs, workers, attempt_number, raised, result, finish_order,
                   responses>>

NextBatch ==
    \/ Enter
    \/ \E i \in Items : StartItem(i)
    \/ \E i \in Items : CallReturns(i)
    \/ \E i \in Items, e \in CompletionErrors : CallRaises(i, e)
    \/ \E i \in Items : Wake(i)
    \/ Collect
    \/ ShutdownDone
    \/ InterruptSequential
    \/ InterruptParallel

SpecBatch == InitBatch /\ [][NextBatch]_vars

\* ------------------------------------------------- conversion cache: actions
\* A report file is modified or replaced: its modification time changes.
Touch(file_path, t) ==
    /\ mtime[file_path] # t
    /\ mtime' = [mtime EXCEPT ![file_path] = t]
    /\ UNCHANGED <<batch_vars, conv_vars, qa_vars, cfg, cache, ret, watch, watch_keys, put_log>>

\* CacheManager(cache_dir).get(file_path, lib, model, retry_cached_failures),
\* called with the lib and the model of the run's configuration.
Get(cache_dir, file_path, retry_cached_failures) ==
    LET lib == cfg.lib
        model == cfg.model
        cache_key == GetCacheKey(file_path, lib, model)
        cache_file == CacheFile(cache_dir, cache_key)
    IN  /\ Observe(file_path, lib, model)
        /\ ret' = ReadCacheFile(cache, cache_file, retry_cached_failures)
        /\ UNCHANGED <<batch_vars, conv_vars, qa_vars, cfg, mtime, cache, watch, put_log>>

\* CacheManager(cache_dir).put(md_string, file_path, lib, model), called with
\* the lib and the model of the run's configuration.
Put(cache_dir, md_string, file_path) ==
    LET lib == cfg.lib
        model == cfg.model
        cache_key == GetCacheKey(file_path, lib, model)
        cache_file == CacheFile(cache_dir, cache_key)
    IN  /\ cache_file \in DOMAIN cache \/ Cardinality(DOMAIN cache) < MaxEntries
        /\ Observe(file_path, lib, model)
        /\ cache' = WriteText(cache, cache_file, md_string)
        /\ put_log' = LogPut(put_log, cache_dir, file_path, md_string)
        /\ ret' = None
        /\ UNCHANGED <<batch_vars, conv_vars, qa_vars, cfg, mtime, watch>>

NextKey ==
    \/ \E f \in Paths, t \in Mtimes : Touch(f, t)
    \/ \E d \in CacheDirs, f \in Paths, r \in BOOLEAN : Get(d, f, r)
    \/ \E d \in CacheDirs, x \in Texts, f \in Paths : Put(d, x, f)

SpecKey == InitKey /\ [][NextKey]_vars

\* ------------------------------------------------- conversion stage: actions
\* step1_convert.main from line 229 on: the check that every row has a text,
\* the markdown files, and the new cache entries.
WriteResults(df, c) ==
    IF \E i \in 1..Len(df) : df[i].md_string = None
      THEN /\ conv_exc' = "AssertionError"
           /\ UNCHANGED <<md_files, cache, put_log>>
      ELSE /\ conv_exc' = None
           /\ md_files' = WriteMarkdown(md_files, df)
           /\ IF c.write_cache
                THEN /\ cache' = WriteCache(cache, NotReadFromCache(df))
                     /\ put_log' = LogPuts(put_log, NotReadFromCache(df))
                ELSE UNCHANGED <<cache, put_log>>

\* A run of step1_convert.main under configuration c, up to the start of the
\* remote conversions (convert_modal.main up to starmap); to its end when
\* there is nothing to convert.
ConvertStart(c) ==
    LET df == LookupCache(SelectFiles(FilesDf(ReportFiles), c), c)
        to_convert == NotReadFromCache(df)
    IN  /\ conv_pc = "idle"
        /\ conv_run < MaxRuns
        /\ conv_run' = conv_run + 1
        /\ conv_cfg' = c
        /\ files_df' = df
        /\ files_to_convert' = to_convert
        /\ md_strings' = <<>>
        /\ IF Len(to_convert) > 0
             THEN /\ conv_pc' = "converting"
                  /\ starmap' = StarmapInputs([i \in 1..Len(to_convert) |-> to_convert[i].file_basename])
                  /\ conv_exc' = None
                  /\ UNCHANGED <<md_files, cache, put_log>>
             ELSE /\ conv_pc' = "idle"
                  /\ starmap' = <<>>
                  /\ WriteResults(df, c)
        /\ UNCHANGED <<batch_vars, qa_vars, cfg, mtime, ret, watch, watch_keys>>

\* One call of the remote conversion function for input i of starmap ends
\* with outcome o.
RemoteCall(i, o) ==
    /\ conv_pc = "converting"
    /\ i \in 1..Len(starmap)
    /\ starmap[i].type = "pending"
    /\ LET attempt == starmap[i].attempts + 1
       IN  starmap' = [starmap EXCEPT ![i] =
                          IF o.type = "exc" /\ RetryConversion(attempt)
                            THEN [@ EXCEPT !.attempts = attempt]
                            ELSE [@ EXCEPT !.type = o.type, !.value = o.value,
                                           !.attempts = attempt]]
    /\ UNCHANGED <<batch_vars, cache_vars, qa_vars, conv_run, conv_pc, conv_cfg, conv_exc, files_df,
                   files_to_convert, md_strings, md_files>>

\* convert_modal.main from the end of starmap on: the results in input order,
\* exceptions replaced by error messages.
BatchConvertReturn ==
    /\ conv_pc = "converting"
    /\ \A i \in 1..Len(starmap) : starmap[i].type # "pending"
    /\ IF Len(starmap) = Len(files_to_convert)
         THEN /\ md_strings' = MdStrings(starmap)
              /\ conv_pc' = "returned"
              /\ UNCHANGED conv_exc
         ELSE /\ conv_exc' = "AssertionError"
              /\ conv_pc' = "idle"
              /\ UNCHANGED md_strings
    /\ UNCHANGED <<batch_vars, cache_vars, qa_vars, conv_run, conv_cfg, files_df, files_to_convert,
                   starmap, md_files>>

\* step1_convert.main after batch_convert returned: the merge of the
\* converted texts into files_df and the writing of the results.
ConvertFinish ==
    /\ conv_pc = "returned"
    /\ IF Len(md_strings) # Len(files_to_convert)
         THEN /\ conv_exc' = "ShapeError"
              /\ UNCHANGED <<files_df, files_to_convert, md_files, cache, put_log>>
         ELSE LET converted == [i \in 1..Len(files_to_convert) |->
                                  [files_to_convert[i] EXCEPT !.md_string = md_strings[i]]]
                  merged == Coalesce(LeftJoin(files_df, converted))
              IN  /\ files_to_convert' = converted
                  /\ files_df' = merged
                  /\ WriteResults(merged, conv_cfg)
    /\ conv_pc' = "idle"
    /\ UNCHANGED <<batch_vars, qa_vars, cfg, mtime, ret, watch, watch_keys, conv_run, conv_cfg,
                   starmap, md_strings>>

NextConvert ==
    \/ \E c \in ConvCfgs : ConvertStart(c)
    \/ \E i \in 1..Cardinality(Paths), o \in ConversionOutcomes : RemoteCall(i, o)
    \/ BatchConvertReturn
    \/ ConvertFinish

SpecConvert == InitConvert /\ [][NextConvert]_vars

\* ------------------------------------------ answer and judge stages: actions
\* step2_answer.main up to the call of batch_completion; to its end when no
\* chat was created.
AnswerPrepare ==
    LET qas == [i \in 1..Len(Questions) |->
                  [question_id |-> Questions[i].question_id,
                   report_name |-> Questions[i].report_name,
                   report_answers |-> ErrorAnswers(Questions[i])]]
        to_process == Flatten([i \in 1..Len(Questions) |-> AnswerChats(Questions[i])])
    IN  /\ qa_pc = "start"
        /\ question_answers' = qas
        /\ chats_to_process' = to_process
        /\ IF to_process = <<>>
             THEN /\ qa_pc' = "answered"
                  /\ answers_file' = DumpAnswers(qas)
             ELSE /\ qa_pc' = "answering"
                  /\ UNCHANGED answers_file
        /\ UNCHANGED <<batch_vars, cache_vars, conv_vars, eval_chats, eval_responses,
                       evaluated_file>>

\* batch_completion returns one response per chat: the answers are stored
\* and step2_answer.main writes the answers file.
AnswerBatchReturns ==
    /\ qa_pc = "answering"
    /\ question_answers' = StoreAnswers(question_answers, chats_to_process)
    /\ answers_file' = DumpAnswers(question_answers')
    /\ qa_pc' = "answered"
    /\ UNCHANGED <<batch_vars, cache_vars, conv_vars, chats_to_process, eval_chats,
                   eval_responses, evaluated_file>>

\* batch_completion raises: process_questions and step2_answer.main raise.
AnswerBatchRaises ==
    /\ qa_pc = "answering"
    /\ qa_pc' = "answer_raised"
    /\ UNCHANGED <<batch_vars, cache_vars, conv_vars, question_answers, chats_to_process,
                   eval_chats, eval_responses, answers_file, evaluated_file>>

\* step3_judge.main up to the call of batch_completion.
JudgePrepare ==
    /\ qa_pc = "answered"
    /\ question_answers' = MarkConversionErrors(LoadAnswers(answers_file))
    /\ eval_chats' = EvalChats(LoadAnswers(answers_file))
    /\ qa_pc' = "judging"
    /\ UNCHANGED <<batch_vars, cache_vars, conv_vars, chats_to_process, eval_responses,
                   answers_file, evaluated_file>>

\* batch_completion returns one response per chat, judge_responses[m] for
\* the m-th: the evaluations are stored and step3_judge.main writes the
\* evaluated answers file.
JudgeBatchReturns(judge_responses) ==
    /\ qa_pc = "judging"
    /\ eval_responses' = judge_responses
    /\ question_answers' = StoreEvaluations(question_answers, eval_chats,
                                            [m \in 1..Len(judge_responses) |->
                                                ParseEvalResponse(judge_responses[m])])
    /\ evaluated_file' = DumpAnswers(question_answers')
    /\ qa_pc' = "judged"
    /\ UNCHANGED <<batch_vars, cache_vars, conv_vars, chats_to_process, eval_chats,
                   answers_file>>

\* batch_completion raises: it was given a chat, and process_evaluations and
\* step3_judge.main raise.
JudgeBatchRaises ==
    /\ qa_pc = "judging"
    /\ eval_chats # <<>>
    /\ qa_pc' = "judge_raised"
    /\ UNCHANGED <<batch_vars, cache_vars, conv_vars, question_answers, chats_to_process,
                   eval_chats, eval_responses, answers_file, evaluated_file>>

NextAnswer ==
    \/ AnswerPrepare
    \/ AnswerBatchReturns
    \/ AnswerBatchRaises
    \/ JudgePrepare
    \/ \E judge_responses \in [1..Len(eval_chats) -> JudgeResponses] :
          JudgeBatchReturns(judge_responses)
    \/ JudgeBatchRaises

SpecAnswer == InitAnswer /\ [][NextAnswer]_vars

\* ------------------------------------------------- batch_completion: claims
Done == pc \in {"returned", "raised"}

AllTransient(errs) == \A k \in DOMAIN errs : errs[k] = "TransientError"

\* C1: when batch_completion returns for a non-empty list, responses has one
\* entry per chat and entry i is the response produced for chat i, whatever
\* order the calls finished in.
C1_OrderPreserved ==
    (pc = "returned" /\ N > 0) =>
        /\ Len(responses) = N
        /\ \A i \in Items : responses[i] = Response(i)

\* A pool run that returned although the calls ended out of index order.
C1_Witness ==
    /\ pc = "returned"
    /\ workers >= 2
    /\ \E k \in DOMAIN finish_order : finish_order[k] # k

\* C2: an item whose retries are exhausted does not abort the batch: the call
\* returns one entry per item and every sibling item has been attempted.
C2_ExhaustedItemDoesNotAbort ==
    (Done /\ ~interrupted /\ \E i \in Items : st[i] = "failed") =>
        /\ pc = "returned"
        /\ Len(responses) = N
        /\ \A j \in Items : attempt_number[j] >= 1

\* C3: an item whose call raised BadRequestError is settled by that one call:
\* it is neither retried nor put to sleep, whatever retries is.
C3_PermanentErrorNotRetried ==
    \A i \in Items :
        (\E k \in DOMAIN raised[i] : raised[i][k] = "BadRequestError") =>
            /\ st[i] = "permanent"
            /\ raised[i][Len(raised[i])] = "BadRequestError"
            /\ attempt_number[i] = Len(raised[i])

\* A batch that ended with retries to spare after a first call raised BadRequestError.
C3_Witness ==
    /\ Done
    /\ retries >= 1
    /\ \E i \in Items : st[i] = "permanent" /\ raised[i] = <<"BadRequestError">>

\* C4: an item whose call raised a transient error k < retries + 1 times is not
\* given up, and when the next call succeeds the item's result is that response
\* after exactly k + 1 attempts.
C4_SucceedsAfterTransientFailures ==
    \A i \in Items :
        /\ (AllTransient(raised[i]) /\ Len(raised[i]) < retries + 1) => st[i] # "failed"
        /\ st[i] = "succeeded" =>
             /\ AllTransient(raised[i])
             /\ Len(raised[i]) < retries + 1
             /\ attempt_number[i] = Len(raised[i]) + 1
             /\ result[i] = Response(i)

\* An item that succeeded after at least one transient failure.
C4_Witness ==
    \E i \in Items : st[i] = "succeeded" /\ Len(raised[i]) >= 1

\* C5: an item whose every call raises a transient error is settled after
\* exactly retries + 1 attempts (one attempt when retries = 0) and is never
\* attempted again.
C5_ExhaustedAfterRetriesPlusOne ==
    /\ [](\A i \in Items :
            /\ attempt_number[i] > 0 => attempt_number[i] <= retries + 1
            /\ (raised[i] # <<>> /\ AllTransient(raised[i]) /\ Len(raised[i]) = retries + 1)
                  => st[i] = "failed"
            /\ st[i] = "failed" =>
                 /\ attempt_number[i] = retries + 1
                 /\ Len(raised[i]) = retries + 1)
    /\ [][\A i \in Items : st[i] = "failed" =>
            /\ st'[i] = "failed"
            /\ attempt_number'[i] = attempt_number[i]]_vars

\* A batch that ended after an item used up one first attempt and one retry.
C5_Witness ==
    /\ Done
    /\ retries >= 1
    /\ \E i \in Items : st[i] = "failed" /\ attempt_number[i] = retries + 1

\* C6: the number of completion calls in flight never exceeds
\* min(workers, number of chats).
C6_InFlightBounded ==
    Cardinality(InFlight) <= Min(workers_arg, N)

\* More workers requested than chats, and every chat's call in flight at once.
C6_Witness ==
    /\ workers_arg > N
    /\ N >= 2
    /\ Cardinality(InFlight) = N

\* C7: with an effective worker count of 1 no attempt for a later item starts
\* before every earlier item has settled.
C7_SequentialInIndexOrder ==
    (pc # "start" /\ workers = 1) =>
        \A i, j \in Items : (i < j /\ attempt_number[j] > 0) => Settled(st[i])

\* A sequential run over several chats that went through a retry and returned.
C7_Witness ==
    /\ pc = "returned"
    /\ workers = 1
    /\ N >= 2
    /\ \E i \in Items : Len(raised[i]) >= 1

\* C8: called with workers < 1 or retries < 0, batch_completion fails with a
\* programmer error for every input list and issues no completion call.
C8_InvalidArgumentsRejected ==
    (pc # "start" /\ (workers_arg < 1 \/ retries < 0)) =>
        /\ pc = "raised"
        /\ exc \in {"AssertionError", "ValueError"}
        /\ \A i \in Items : attempt_number[i] = 0

\* C9: after a KeyboardInterrupt no item is attempted (again) and what
\* batch_completion raises is the KeyboardInterrupt.
C9_InterruptStopsAllAttempts ==
    [][interrupted =>
        /\ attempt_number' = attempt_number
        /\ (pc' = "raised" => exc' = "KeyboardInterrupt")]_vars
\* --------------------------------------------------- conversion cache: claims
\* C10: _get_cache_key returns the same key on every call made for the same
\* (basename, mtime, lib, model), whichever path, CacheManager instance or
\* earlier get and put the call comes with.
C10_CacheKeyDeterministic ==
    Cardinality(watch_keys) <= 1

\* The watched triple has been keyed, although two files carry it and the
\* cache holds an entry.
C10_Witness ==
    /\ watch_keys # {}
    /\ \E f, g \in Paths : f # g /\ mtime[f] = watch.mtime /\ mtime[g] = watch.mtime
    /\ DOMAIN cache # {}
\* C11: two (content identity, lib, model) triples that differ in one
\* component, None against a model name included, never have the same key.
C11_DistinctTriplesDistinctKeys ==
    \A f, g \in Paths, l1, l2 \in Libs, m1, m2 \in Models :
        Triple(f, l1, m1) # Triple(g, l2, m2)
            => GetCacheKey(f, l1, m1) # GetCacheKey(g, l2, m2)

C13_MissReturnsNone ==
    \A d \in CacheDirs, f \in Paths, r \in BOOLEAN :
        (\A e \in DOMAIN put_log :
            e.cache_dir = d => put_log[e].key # GetCacheKey(f, cfg.lib, cfg.model))
        => GetValue(d, f, r) = None

\* A get has returned None for a file although the cache holds other entries.
C13_Witness ==
    /\ ret = None
    /\ DOMAIN put_log # {}
    /\ \E d \in CacheDirs, f \in Paths :
         \A e \in DOMAIN put_log :
            e.cache_dir = d => put_log[e].key # GetCacheKey(f, cfg.lib, cfg.model)

\* C18: the puts made so far, in whatever order, left exactly one cache file
\* per key put, holding the text of the latest put for that key.
C18_PutChangesOnlyItsKey ==
    /\ DOMAIN cache = {CacheFile(e.cache_dir, put_log[e].key) : e \in DOMAIN put_log}
    /\ \A e \in DOMAIN put_log :
         cache[CacheFile(e.cache_dir, put_log[e].key)] = put_log[e].text

\* Puts for two different keys with different texts.
C18_Witness ==
    \E e1, e2 \in DOMAIN put_log :
        /\ put_log[e1].key # put_log[e2].key
        /\ put_log[e1].text # put_log[e2].text
\* --------------------------------------------------- conversion stage: claims
\* The rows the configuration of the current run selects.
Selected == SelectFiles(FilesDf(ReportFiles), conv_cfg)

\* A run of step1_convert.main has ended.
RunEnded == conv_run > 0 /\ conv_pc = "idle"

\* The cache file of report file f under the lib and model of the configuration.
CacheFileOf(f) == CacheFile(CacheDir, GetCacheKey(f, cfg.lib, cfg.model))

\* C14: whatever the cache hits, misses and conversion failures of a run, its
\* merged result has one row per selected file, in order, each with a text.
C14_OneTextPerSelectedFile ==
    RunEnded =>
        /\ conv_exc = None
        /\ Len(files_df) = Len(Selected)
        /\ \A i \in 1..Len(files_df) :
             /\ files_df[i].file = Selected[i].file
             /\ files_df[i].md_string # None

\* A run ended with one file read from the cache and one whose conversion failed.
C14_Witness ==
    /\ RunEnded
    /\ Len(files_df) = 2
    /\ \E i, j \in 1..Len(files_df) :
         /\ files_df[i].read_from_cache
         /\ ~files_df[j].read_from_cache
         /\ StartsWith(files_df[j].md_string, "Error converting")

\* C15: convert_modal.main does not raise when conversions fail: it returns
\* one entry per input file, in input order, the entry of a failed file being
\* "Error converting <file> to markdown: <error>" and every other entry the
\* converted text.
C15_FailuresBecomeErrorTexts ==
    /\ conv_exc = None
    /\ conv_pc = "returned" =>
         /\ Len(md_strings) = Len(files_to_convert)
         /\ \A i \in 1..Len(md_strings) :
              md_strings[i] =
                 IF starmap[i].type = "exc"
                   THEN "Error converting " \o files_to_convert[i].file_basename
                           \o " to markdown: " \o starmap[i].value
                   ELSE starmap[i].value

\* convert_modal.main returned for two files, the first of which failed.
C15_Witness ==
    /\ conv_pc = "returned"
    /\ Len(starmap) = 2
    /\ starmap[1].type = "exc"
    /\ starmap[2].type = "str"

\* C16: a run with read_cache on that finds the failure text of an earlier
\* run in the cache for an unchanged file sends the file to conversion again
\* if and only if retry_cached_failures is true; otherwise it takes the cached
\* failure text as the file's result and makes no conversion call for it.
C16_CachedFailureRetriedIffFlag ==
    [][(conv_run' = conv_run + 1 /\ conv_cfg'.read_cache) =>
          /\ Len(starmap') = Len(files_to_convert')
          /\ \A i \in 1..Len(files_df') :
               LET f == files_df'[i].file IN
               (CacheFileOf(f) \in DOMAIN cache
                   /\ StartsWith(cache[CacheFileOf(f)], "Error converting")) =>
                 /\ (\E k \in 1..Len(files_to_convert') : files_to_convert'[k].file = f)
                       <=> conv_cfg'.retry_cached_failures
                 /\ ~conv_cfg'.retry_cached_failures =>
                       files_df'[i].md_string = cache[CacheFileOf(f)]
      ]_vars

\* A second run re-converts a file whose failure the first run cached.
C16_Witness ==
    /\ conv_run = 2
    /\ conv_pc = "converting"
    /\ conv_cfg.read_cache
    /\ conv_cfg.retry_cached_failures
    /\ \E k \in 1..Len(files_to_convert) :
         /\ CacheFileOf(files_to_convert[k].file) \in DOMAIN cache
         /\ StartsWith(cache[CacheFileOf(files_to_convert[k].file)], "Error converting")

C19_CachedFilesNotConverted ==
    /\ [](/\ \A i \in 1..Len(files_df) :
               files_df[i].read_from_cache =>
                 /\ \A k \in 1..Len(files_to_convert) :
                       files_to_convert[k].file # files_df[i].file
                 /\ CacheFileOf(files_df[i].file) \in DOMAIN cache
                 /\ files_df[i].md_string = cache[CacheFileOf(files_df[i].file)]
          /\ Len(starmap) \in {0, Len(files_to_convert)}
          /\ \A k \in 1..Len(starmap) :
               starmap[k].file = files_to_convert[k].file_basename)
    /\ [][/\ conv_run' = conv_run + 1 =>
               \A i \in 1..Len(files_df') :
                  files_df'[i].read_from_cache <=>
                     /\ conv_cfg'.read_cache
                     /\ GetValue(CacheDir, files_df'[i].file,
                                 conv_cfg'.retry_cached_failures) # None
          /\ \A cf \in DOMAIN cache' :
               (cf \notin DOMAIN cache \/ cache'[cf] # cache[cf]) =>
                  \E i \in 1..Len(files_df') :
                     /\ ~files_df'[i].read_from_cache
                     /\ cf = CacheFileOf(files_df'[i].file)
         ]_vars

\* A run ended that read one file from the cache and converted and cached the other.
C19_Witness ==
    /\ RunEnded
    /\ conv_cfg.write_cache
    /\ Len(files_df) = 2
    /\ \E i, j \in 1..Len(files_df) :
         /\ files_df[i].read_from_cache
         /\ ~files_df[j].read_from_cache
         /\ CacheFileOf(files_df[j].file) \in DOMAIN cache
         /\ cache[CacheFileOf(files_df[j].file)] = files_df[j].md_string
\* ------------------------------------------- answer and judge stages: claims
\* The file names of the reports of q whose text begins with "Error converting".
FailedReports(q) ==
    {filename \in {MdNames[k] : k \in 1..Len(MdNames)} :
        /\ Append(MarkdownDir, filename) \in DOMAIN md_files
        /\ StartsWith(filename, q.report_name \o "_from")
        /\ StartsWith(md_files[Append(MarkdownDir, filename)], "Error converting")}

\* The positions in the report_answers of question i that are about filename.
AnswersAbout(i, filename) ==
    {k \in 1..Len(question_answers[i].report_answers) :
        question_answers[i].report_answers[k].report_filename = filename}

\* C20: a report whose text begins with "Error converting" is in no chat for
\* the answer model and in no chat for the judge model; the answer stage
\* records for it one ReportAnswer with conversion_error true and answer
\* "CONVERSION_ERROR", the judge stage gives that answer the evaluation
\* (reasoning "CONVERSION_ERROR", correct false), and a stage that was given
\* only such reports does not raise.
C20_ConversionErrorSkipsModels ==
    /\ \A m \in 1..Len(chats_to_process) :
         ~StartsWith(md_files[Append(MarkdownDir, chats_to_process[m].report_filename)],
                     "Error converting")
    /\ \A m \in 1..Len(eval_chats) :
         LET ra == question_answers[eval_chats[m].question].report_answers[eval_chats[m].answer]
         IN  ~StartsWith(md_files[Append(MarkdownDir, ra.report_filename)], "Error converting")
    /\ qa_pc # "start" =>
         \A i \in 1..Len(Questions) : \A filename \in FailedReports(Questions[i]) :
            /\ Cardinality(AnswersAbout(i, filename)) = 1
            /\ \A k \in AnswersAbout(i, filename) :
                 LET ra == question_answers[i].report_answers[k]
                 IN  /\ ra.conversion_error
                     /\ ra.answer = "CONVERSION_ERROR"
                     /\ qa_pc \in {"judging", "judged", "judge_raised"} =>
                          ra.evaluation = Evaluation("CONVERSION_ERROR", FALSE)
    /\ qa_pc = "answer_raised" => chats_to_process # <<>>
    /\ qa_pc = "judge_raised" => eval_chats # <<>>

\* The judge stage ended for a question with one failed report and one
\* converted report, whose answer went to the judge.
C20_Witness ==
    /\ qa_pc = "judged"
    /\ \E i \in 1..Len(Questions) :
         /\ FailedReports(Questions[i]) # {}
         /\ \E k \in 1..Len(question_answers[i].report_answers) :
              /\ ~question_answers[i].report_answers[k].conversion_error
              /\ question_answers[i].report_answers[k].evaluation.reasoning = "matches"
\* The report answer the m-th chat of the judge stage is about.
JudgedAnswer(m) ==
    question_answers[eval_chats[m].question].report_answers[eval_chats[m].answer]

\* The responses of the judge model that hold reasoning and correct, with the
\* evaluation each one states.
StatedEvaluation(response) ==
    IF response = "{\"reasoning\": \"matches\", \"correct\": true}"
      THEN Evaluation("matches", TRUE)
      ELSE IF response = "{\"reasoning\": \"differs\", \"correct\": false"
             THEN Evaluation("differs", FALSE)
             ELSE NoEvaluation

\* C21: when process_evaluations has returned, an answer whose judge response
\* could not be parsed has an evaluation with a reasoning that begins with
\* "EVALUATION_ERROR" and correct false, every other answer sent to the judge
\* has the evaluation its own response states, and every report answer has an
\* evaluation.
C21_UnparsableResponseAffectsOnlyItsAnswer ==
    qa_pc = "judged" =>
        /\ Len(eval_responses) = Len(eval_chats)
        /\ \A m \in 1..Len(eval_chats) :
             IF StatedEvaluation(eval_responses[m]) = NoEvaluation
               THEN /\ StartsWith(JudgedAnswer(m).evaluation.reasoning, "EVALUATION_ERROR")
                    /\ JudgedAnswer(m).evaluation.correct = FALSE
               ELSE JudgedAnswer(m).evaluation = StatedEvaluation(eval_responses[m])
        /\ \A i \in 1..Len(question_answers) :
             \A k \in 1..Len(question_answers[i].report_answers) :
                question_answers[i].report_answers[k].evaluation # NoEvaluation

\* The judge stage returned with an unparsable response between two parsable
\* responses that state different evaluations.
C21_Witness ==
    /\ qa_pc = "judged"
    /\ Len(eval_responses) = 3
    /\ StatedEvaluation(eval_responses[1]) = Evaluation("matches", TRUE)
    /\ StatedEvaluation(eval_responses[2]) = NoEvaluation
    /\ StatedEvaluation(eval_responses[3]) = Evaluation("differs", FALSE)
\* C22: a run writes no two selected files to the same markdown path, and
\* when it has ended the markdown directory holds every selected file's text
\* at that file's path.
C22_DistinctFilesDistinctMdPaths ==
    (RunEnded /\ conv_exc = None) =>
        /\ \A i, j \in 1..Len(files_df) :
             i # j => files_df[i].md_path # files_df[j].md_path
        /\ \A i \in 1..Len(files_df) :
             /\ files_df[i].md_path \in DOMAIN md_files
             /\ md_files[files_df[i].md_path] = files_df[i].md_string
====
